---- MODULE Spec2Model ----
(***************************************************************************)
(* A model of shipper-release (src/src/main.rs): the `generate` and `push` *)
(* subcommands, the two files they work on (CHANGELOG.md, version.txt) and *)
(* the git commands they run.                                              *)
(*                                                                         *)
(* Text is a sequence of characters, each a one-character string.  Words   *)
(* that no scan of the program ever looks into are kept as single atoms:   *)
(* CompareURL, "Unreleased", "HEAD", the date stamp, and the fixed words   *)
(* of the git command lines.                                               *)
(***************************************************************************)
EXTENDS Integers, Sequences, FiniteSets, TLC

(***************************************************************************)
(* Text primitives of the Rust standard library, as the program uses them. *)
(***************************************************************************)

NL == "\n"
CR == "\r"

\* char::is_whitespace, restricted to the characters of the model's alphabet
IsWhitespace(c) == c \in {" ", "\t", NL, CR}

\* str::starts_with
StartsWith(s, p) == Len(s) >= Len(p) /\ SubSeq(s, 1, Len(p)) = p

\* the least element of a non-empty set of numbers
Least(S) == CHOOSE x \in S : \A y \in S : x <= y

\* the greatest element of a non-empty set of numbers
Greatest(S) == CHOOSE x \in S : \A y \in S : x >= y

\* str::trim: s without its leading and trailing whitespace
Trim(s) ==
    LET keep == {i \in 1..Len(s) : ~IsWhitespace(s[i])}
    IN  IF keep = {} THEN <<>> ELSE SubSeq(s, Least(keep), Greatest(keep))

\* the positions of the newlines of s
Newlines(s) == {i \in 1..Len(s) : s[i] = NL}

\* the position of the k-th newline of s; 0 for k = 0 and Len(s) + 1 past the last
NewlineAt(s, k) ==
    IF k = 0 THEN 0
    ELSE IF k > Cardinality(Newlines(s)) THEN Len(s) + 1
    ELSE CHOOSE p \in Newlines(s) : Cardinality({q \in Newlines(s) : q <= p}) = k

\* str::split('\n'): the pieces between the newlines; one more piece than newlines
SplitNL(s) ==
    [k \in 1..(Cardinality(Newlines(s)) + 1) |->
        SubSeq(s, NewlineAt(s, k - 1) + 1, NewlineAt(s, k) - 1)]

\* [String]::join("\n"): the strings in order with a newline between neighbours
\* (the join of the first half, a newline, the join of the second half)
RECURSIVE JoinNL(_)
JoinNL(ls) ==
    IF ls = <<>> THEN <<>>
    ELSE IF Len(ls) = 1 THEN ls[1]
    ELSE JoinNL(SubSeq(ls, 1, Len(ls) \div 2)) \o <<NL>>
         \o JoinNL(SubSeq(ls, Len(ls) \div 2 + 1, Len(ls)))

\* a line of str::lines without its terminator: "\n" or "\r\n"
StripCR(l) ==
    IF l # <<>> /\ l[Len(l)] = CR THEN SubSeq(l, 1, Len(l) - 1) ELSE l

\* str::lines: lines end at "\n" or "\r\n"; a final line needs no terminator and
\* text ending in a newline has no empty last line
StrLines(s) ==
    LET n == Cardinality(Newlines(s))
        pieces == SplitNL(s)
    IN  [k \in 1..(IF pieces[n + 1] = <<>> THEN n ELSE n + 1) |->
            IF k <= n THEN StripCR(pieces[k]) ELSE pieces[k]]

\* BufRead::read_line: the bytes up to and including the first "\n"
ReadLine(s) ==
    IF Newlines(s) = {} THEN s ELSE SubSeq(s, 1, Least(Newlines(s)))

(***************************************************************************)
(* Character classes.                                                      *)
(***************************************************************************)

Digits == {"0", "1", "2", "3", "4", "5", "6", "7", "8", "9"}

HexLetters == {"a", "b", "c", "d", "e", "f", "A", "B", "C", "D", "E", "F"}

Letters ==
    HexLetters \cup
    {"g", "h", "i", "j", "k", "l", "m", "n", "o", "p", "q", "r", "s", "t", "u",
     "v", "w", "x", "y", "z", "G", "H", "I", "J", "K", "L", "M", "N", "O", "P",
     "Q", "R", "S", "T", "U", "V", "W", "X", "Y", "Z"}

\* the character class [0-9a-fA-F] of the commit pattern
IsHex(c) == c \in Digits \cup HexLetters

DigitVal(c) ==
    CASE c = "0" -> 0 [] c = "1" -> 1 [] c = "2" -> 2 [] c = "3" -> 3
      [] c = "4" -> 4 [] c = "5" -> 5 [] c = "6" -> 6 [] c = "7" -> 7
      [] c = "8" -> 8 [] c = "9" -> 9

DigitChar(n) == <<"0", "1", "2", "3", "4", "5", "6", "7", "8", "9">>[n + 1]

(***************************************************************************)
(* u64 arithmetic on decimal numerals.  A u64 is held as its decimal       *)
(* numeral (a non-empty sequence of digits without a leading zero), which  *)
(* is what Version::parse reads and Version::to_string prints.             *)
(***************************************************************************)

\* u64::MAX = 18446744073709551615
U64Max ==
    <<"1", "8", "4", "4", "6", "7", "4", "4", "0", "7",
      "3", "7", "0", "9", "5", "5", "1", "6", "1", "5">>

\* a < b for two numerals of the same length
LexLess(a, b) ==
    LET differ == {i \in 1..Len(a) : a[i] # b[i]}
    IN  differ # {} /\ DigitVal(a[Least(differ)]) < DigitVal(b[Least(differ)])

\* a < b for two numerals without leading zeros
NumLess(a, b) == Len(a) < Len(b) \/ (Len(a) = Len(b) /\ LexLess(a, b))

\* the numeral of n + 1 in unbounded arithmetic
RECURSIVE Succ(_)
Succ(n) ==
    IF n = <<>> THEN <<"1">>
    ELSE IF n[Len(n)] = "9" THEN Succ(SubSeq(n, 1, Len(n) - 1)) \o <<"0">>
    ELSE SubSeq(n, 1, Len(n) - 1) \o <<DigitChar(DigitVal(n[Len(n)]) + 1)>>

\* `x += 1` on a u64.  At u64::MAX the addition overflows: a build with overflow
\* checks (the debug profile) panics, a build without (the release profile) wraps
\* to 0.
AddOne(n, overflow_checks) ==
    IF n # U64Max THEN [panic |-> FALSE, value |-> Succ(n)]
    ELSE IF overflow_checks THEN [panic |-> TRUE, value |-> n]
    ELSE [panic |-> FALSE, value |-> <<"0">>]

(***************************************************************************)
(* semver::Version: parse and to_string.                                   *)
(***************************************************************************)

\* the longest prefix of s made of characters of set cs
TakeWhile(s, cs) ==
    LET stop == {i \in 1..Len(s) : s[i] \notin cs}
    IN  IF stop = {} THEN s ELSE SubSeq(s, 1, Least(stop) - 1)

Drop(s, n) == SubSeq(s, n + 1, Len(s))

\* a numeric identifier: digits, no leading zero, at most u64::MAX
IsNumeric(n) ==
    /\ n # <<>>
    /\ \A i \in 1..Len(n) : n[i] \in Digits
    /\ (Len(n) > 1 => n[1] # "0")
    /\ ~NumLess(U64Max, n)

IdentChars == Digits \cup Letters \cup {"-"}

\* dot-separated pre-release or build identifiers: each non-empty, and a numeric
\* pre-release identifier has no leading zero
RECURSIVE IsIdents(_, _)
IsIdents(s, is_pre) ==
    LET id == TakeWhile(s, IdentChars)
        after == Drop(s, Len(id))
    IN  /\ id # <<>>
        /\ (is_pre /\ Len(id) > 1 /\ (\A i \in 1..Len(id) : id[i] \in Digits)
              => id[1] # "0")
        /\ \/ after = <<>>
           \/ after[1] = "." /\ IsIdents(Tail(after), is_pre)

\* what may follow the patch number: nothing, -<pre>, +<build> or -<pre>+<build>
IsSuffix(s) ==
    LET pre == TakeWhile(Tail(s), IdentChars \cup {"."})
        after == Drop(s, 1 + Len(pre))
    IN  \/ s = <<>>
        \/ s[1] = "+" /\ IsIdents(Tail(s), FALSE)
        \/ /\ s[1] = "-"
           /\ IsIdents(pre, TRUE)
           /\ \/ after = <<>>
              \/ after[1] = "+" /\ IsIdents(Tail(after), FALSE)

NoVersion == [ok |-> FALSE, major |-> <<>>, minor |-> <<>>, patch |-> <<>>, rest |-> <<>>]

\* Version::parse: MAJOR.MINOR.PATCH and an optional pre-release and build suffix
VersionParse(s) ==
    LET ma == TakeWhile(s, Digits)
        s1 == Drop(s, Len(ma))
        mi == TakeWhile(Drop(s1, 1), Digits)
        s2 == Drop(s1, 1 + Len(mi))
        pa == TakeWhile(Drop(s2, 1), Digits)
        s3 == Drop(s2, 1 + Len(pa))
    IN  IF /\ IsNumeric(ma) /\ s1 # <<>> /\ s1[1] = "."
           /\ IsNumeric(mi) /\ s2 # <<>> /\ s2[1] = "."
           /\ IsNumeric(pa) /\ IsSuffix(s3)
        THEN [ok |-> TRUE, major |-> ma, minor |-> mi, patch |-> pa, rest |-> s3]
        ELSE NoVersion

\* Version::to_string (Display)
VersionToString(v) == v.major \o <<".">> \o v.minor \o <<".">> \o v.patch \o v.rest

(***************************************************************************)
(* get_new_version                                                         *)
(***************************************************************************)

NoResult == [panic |-> TRUE, value |-> <<>>]

\* get_new_version as semantic versioning has it: a bump resets the lower components
get_new_version_resetting(last_version_raw, major, minor, patch, overflow_checks) ==
    LET v == VersionParse(last_version_raw)
        bump(n) == AddOne(n, overflow_checks)
    IN  IF ~v.ok THEN NoResult
        ELSE IF major THEN
            IF bump(v.major).panic THEN NoResult
            ELSE [panic |-> FALSE,
                  value |-> VersionToString([v EXCEPT !.major = bump(v.major).value,
                                                      !.minor = <<"0">>,
                                                      !.patch = <<"0">>])]
        ELSE IF minor THEN
            IF bump(v.minor).panic THEN NoResult
            ELSE [panic |-> FALSE,
                  value |-> VersionToString([v EXCEPT !.minor = bump(v.minor).value,
                                                      !.patch = <<"0">>])]
        ELSE IF patch THEN
            IF bump(v.patch).panic THEN NoResult
            ELSE [panic |-> FALSE,
                  value |-> VersionToString([v EXCEPT !.patch = bump(v.patch).value])]
        ELSE NoResult

\* The new version string, or a panic: the unwrap of a failed parse, an overflow
\* under overflow checks, or no flag set.
get_new_version(last_version_raw, major, minor, patch, overflow_checks) ==
    LET v == VersionParse(last_version_raw)
        bump(n) == AddOne(n, overflow_checks)
    IN  IF ~v.ok THEN NoResult
        ELSE IF major THEN
            IF bump(v.major).panic THEN NoResult
            ELSE [panic |-> FALSE,
                  value |-> VersionToString([v EXCEPT !.major = bump(v.major).value])]
        ELSE IF minor THEN
            IF bump(v.minor).panic THEN NoResult
            ELSE [panic |-> FALSE,
                  value |-> VersionToString([v EXCEPT !.minor = bump(v.minor).value])]
        ELSE IF patch THEN
            IF bump(v.patch).panic THEN NoResult
            ELSE [panic |-> FALSE,
                  value |-> VersionToString([v EXCEPT !.patch = bump(v.patch).value])]
        ELSE NoResult

(***************************************************************************)
(* parse_git_log                                                           *)
(***************************************************************************)

\* index of the first hexadecimal character of line, or 0
FindHex(line) ==
    LET hex == {i \in 1..Len(line) : IsHex(line[i])}
    IN  IF hex = {} THEN 0 ELSE Least(hex)

\* pattern.captures(line) for ([0-9a-fA-F]+)(.*): the pattern is not anchored, so
\* the leftmost match starts at the first hexadecimal character of the line; group 1
\* is the run of hexadecimal characters from there and group 2 the rest of the line.
Captures(line) ==
    LET k == FindHex(line)
        hash == TakeWhile(Drop(line, k - 1), Digits \cup HexLetters)
    IN  IF k = 0 THEN [matched |-> FALSE, hash |-> <<>>, rest |-> <<>>]
        ELSE [matched |-> TRUE, hash |-> hash,
              rest |-> Drop(line, k - 1 + Len(hash))]

\* filter_map(captures) then map to Commit { msg: group 2, trimmed }
RECURSIVE CommitsOf(_)
CommitsOf(ls) ==
    IF ls = <<>> THEN <<>>
    ELSE (IF Captures(Head(ls)).matched
          THEN <<[msg |-> Trim(Captures(Head(ls)).rest)]>>
          ELSE <<>>) \o CommitsOf(Tail(ls))

parse_git_log(stdout) == CommitsOf(StrLines(stdout))

(***************************************************************************)
(* The changelog's marker lines.                                           *)
(***************************************************************************)

CompareURL == "https://github.com/shipperstack/shipper/compare/"

\* "[Unreleased]: https://github.com/shipperstack/shipper/compare/"
UnreleasedPrefix == <<"[", "Unreleased", "]", ":", " ", CompareURL>>

\* format!("[Unreleased]: <CompareURL>{new_version}...HEAD")
UnreleasedLine(v) == UnreleasedPrefix \o v \o <<".", ".", ".", "HEAD">>

\* format!("# [{version}] - ")
StartMarker(v) == <<"#", " ", "[">> \o v \o <<"]", " ", "-", " ">>

\* format!("# [{new_version}] - {today_iso8601}")
HeaderLine(v, today) == StartMarker(v) \o <<today>>

\* format!("[{version}]: <CompareURL>")
EndMarker(v) == <<"[">> \o v \o <<"]", ":", " ", CompareURL>>

\* format!("[{new_version}]: <CompareURL>{last_version}...{new_version}")
LinkLine(v, last) == EndMarker(v) \o last \o <<".", ".", ".">> \o v

\* format!("- {commit_msg}") for every commit, in order
EntryLines(commits) == [i \in 1..Len(commits) |-> <<"-", " ">> \o commits[i].msg]

(***************************************************************************)
(* generate_changelog: the rewrite loop.                                   *)
(***************************************************************************)

\* the release block without the empty line between the header and the entries
ReleaseBlock_NoBlank(new_version, last_version, today, commits) ==
    <<UnreleasedLine(new_version), <<>>, <<>>, HeaderLine(new_version, today)>>
    \o EntryLines(commits)
    \o <<<<>>, LinkLine(new_version, last_version)>>

\* what the loop pushes for a line that starts with the Unreleased prefix
ReleaseBlock(new_version, last_version, today, commits) ==
    <<UnreleasedLine(new_version), <<>>, <<>>, HeaderLine(new_version, today), <<>>>>
    \o EntryLines(commits)
    \o <<<<>>, LinkLine(new_version, last_version)>>

\* the rewrite loop dropping the empty lines of the document
RECURSIVE RewriteLines_DropBlank(_, _)
RewriteLines_DropBlank(old_changelog, block) ==
    IF old_changelog = <<>> THEN <<>>
    ELSE IF Len(old_changelog) = 1 THEN
        (IF StartsWith(old_changelog[1], UnreleasedPrefix) THEN block
         ELSE IF old_changelog[1] = <<>> THEN <<>>
         ELSE old_changelog)
    ELSE RewriteLines_DropBlank(
             SubSeq(old_changelog, 1, Len(old_changelog) \div 2), block)
         \o RewriteLines_DropBlank(
             SubSeq(old_changelog, Len(old_changelog) \div 2 + 1, Len(old_changelog)),
             block)

\* `for line in old_changelog`: every line that starts with the Unreleased prefix
\* is replaced by the release block, every other line is pushed as it is.  The
\* loop keeps no state from one line to the next, so what it pushes for a document
\* is what it pushes for the first half followed by what it pushes for the second.
RECURSIVE RewriteLines(_, _)
RewriteLines(old_changelog, block) ==
    IF old_changelog = <<>> THEN <<>>
    ELSE IF Len(old_changelog) = 1 THEN
        (IF StartsWith(old_changelog[1], UnreleasedPrefix) THEN block
         ELSE old_changelog)
    ELSE RewriteLines(SubSeq(old_changelog, 1, Len(old_changelog) \div 2), block)
         \o RewriteLines(
             SubSeq(old_changelog, Len(old_changelog) \div 2 + 1, Len(old_changelog)),
             block)

\* new_changelog.join("\n") for the contents binding of the changelog file
NewChangelog(binding, new_version, last_version, today, git_log_raw) ==
    JoinNL(RewriteLines(SplitNL(binding),
                        ReleaseBlock(new_version, last_version, today,
                                     parse_git_log(git_log_raw))))

(***************************************************************************)
(* get_changes                                                             *)
(***************************************************************************)

\* `for line in changelog_content.lines()` with the loop's two variables
RECURSIVE ScanChanges(_, _, _, _, _)
ScanChanges(ls, start_marker, end_marker, is_in_target_version_section, extracted_changes) ==
    IF ls = <<>> THEN extracted_changes
    ELSE IF StartsWith(Head(ls), start_marker)
        THEN ScanChanges(Tail(ls), start_marker, end_marker, TRUE, extracted_changes)
    ELSE IF StartsWith(Head(ls), end_marker)
        THEN extracted_changes
    ELSE ScanChanges(Tail(ls), start_marker, end_marker,
                     is_in_target_version_section,
                     IF is_in_target_version_section
                     THEN extracted_changes \o Head(ls) \o <<NL>>
                     ELSE extracted_changes)

get_changes(changelog_content, version) ==
    ScanChanges(StrLines(changelog_content), StartMarker(version),
                EndMarker(version), FALSE, <<>>)

(***************************************************************************)
(* get_last_version                                                        *)
(***************************************************************************)

\* the first line of the version file, trimmed
get_last_version(file) == Trim(ReadLine(file))

(***************************************************************************)
(* Inputs: the files the program is started on, what `git log` prints and  *)
(* the date of the run.                                                    *)
(***************************************************************************)

\* number of generate runs in a behaviour (runs of push are not limited)
MaxReleases == 1

V122 == <<"1", ".", "2", ".", "2">>
V123 == <<"1", ".", "2", ".", "3">>
V124 == <<"1", ".", "2", ".", "4">>

TitleLine == <<"#", " ", "L", "o", "g">>
OldEntry == <<"-", " ", "O", "l", "d">>
OldDate == "2024-01-01"

\* one Unreleased marker over a released section, and a newline at the end
DocRelease ==
    JoinNL(<<TitleLine, <<>>, UnreleasedLine(V123), <<>>, HeaderLine(V123, OldDate),
             <<>>, OldEntry, <<>>, LinkLine(V123, V122), <<>>>>)

\* no Unreleased marker, and no newline at the end of the file
DocNoMarker ==
    JoinNL(<<TitleLine, <<>>, HeaderLine(V123, OldDate), OldEntry, LinkLine(V123, V122)>>)

\* two Unreleased markers
DocTwoMarkers ==
    JoinNL(<<TitleLine, UnreleasedLine(V123), OldEntry, UnreleasedLine(V122), <<>>>>)

\* the closing link of 1.2.3 before its header
DocLinkFirst ==
    JoinNL(<<UnreleasedLine(V123), LinkLine(V123, V122), HeaderLine(V123, OldDate),
             OldEntry, LinkLine(V123, V122), <<>>>>)

\* a section of 1.2.4 above the Unreleased marker
DocHeaderAbove ==
    JoinNL(<<HeaderLine(V124, OldDate), OldEntry, UnreleasedLine(V123), <<>>>>)

\* a section of 1.2.4 and no Unreleased marker
DocNextNoMarker ==
    JoinNL(<<TitleLine, HeaderLine(V124, OldDate), OldEntry, LinkLine(V124, V123), <<>>>>)

\* CRLF line ends
DocCRLF ==
    JoinNL(<<TitleLine \o <<CR>>, UnreleasedLine(V123) \o <<CR>>,
             HeaderLine(V123, OldDate) \o <<CR>>, OldEntry \o <<CR>>,
             LinkLine(V123, V122) \o <<CR>>, <<>>>>)

Documents ==
    {DocRelease, DocNoMarker, DocTwoMarkers, DocLinkFirst, DocHeaderAbove,
     DocNextNoMarker, DocCRLF}

VersionFiles ==
    { V123 \o <<NL>>,
      <<"1", ".", "2", NL>>,
      <<" ", "1", ".", "9", ".", "9", "9", " ", NL>>,
      V123 \o <<"-", "r", "c", "1", NL>>,
      U64Max \o <<".", "2", ".", "3", NL>> }

\* outputs of `git log --oneline --reverse <last_version>...HEAD`
LogTwoCommits ==
    <<"a", "b", "c", "1", "2", "3", " ", "F", "i", "x", " ", "b", "u", "g", NL,
      "d", "e", "f", "4", "5", "6", " ", "A", "d", "d", " ",
      "f", "e", "a", "t", "u", "r", "e", NL>>

\* a line without a hash, a line without a hexadecimal character, a CRLF line
LogMalformed ==
    <<"a", "b", "c", "1", "2", "3", " ", "F", "i", "x", " ", "b", "u", "g", NL,
      "n", "o", "t", "-", "a", "-", "h", "a", "s", "h", "-", "n", "o", "-",
      "m", "e", "s", "s", "a", "g", "e", NL,
      "z", "z", "z", NL,
      "1", "f", " ", " ", "t", "r", "i", "m", " ", CR, NL>>

GitLogs == {LogTwoCommits, LogMalformed, <<>>}

\* values of today_iso8601()
Dates == {"2024-05-17"}

Commands ==
    [command : {"generate"}, major : BOOLEAN, minor : BOOLEAN, patch : BOOLEAN]
    \cup {[command |-> "push", major |-> FALSE, minor |-> FALSE, patch |-> FALSE]}

NoCommand == [command |-> "none", major |-> FALSE, minor |-> FALSE, patch |-> FALSE]

(***************************************************************************)
(* State.                                                                  *)
(***************************************************************************)

VARIABLES
    changelog,      \* contents of CHANGELOG.md
    version_txt,    \* contents of version.txt
    releases,       \* number of generate runs started so far
    pc,             \* where the current run is
    cmd,            \* the parsed command line of the current run
    last_version,   \* generate_changelog: last_version; push: version
    git_log_raw,    \* generate_changelog: git_log_raw
    new_version,    \* generate_changelog: new_version
    today,          \* generate_changelog: today_iso8601
    new_changelog,  \* generate_changelog: new_changelog, joined
    changes,        \* push: changes
    trace,          \* file accesses and git commands of the current run, in order
    changelog0,     \* CHANGELOG.md as the current run found it
    version_txt0,   \* version.txt as the current run found it
    prev            \* what the previous run generated, if it was a completed generate

vars ==
    <<changelog, version_txt, releases, pc, cmd, last_version, git_log_raw, new_version,
      today, new_changelog, changes, trace, changelog0, version_txt0, prev>>

files == <<changelog, version_txt>>
locals == <<last_version, git_log_raw, new_version, today, new_changelog, changes>>
history == <<changelog0, version_txt0, prev>>

NoPrev == [generated |-> FALSE, document |-> <<>>, git_log_raw |-> <<>>,
           last_version |-> <<>>, new_version |-> <<>>]

Init ==
    /\ changelog \in Documents
    /\ version_txt \in VersionFiles
    /\ releases = 0
    /\ pc = "main"
    /\ cmd = NoCommand
    /\ last_version = <<>>
    /\ git_log_raw = <<>>
    /\ new_version = <<>>
    /\ today = ""
    /\ new_changelog = <<>>
    /\ changes = <<>>
    /\ trace = <<>>
    /\ changelog0 = changelog
    /\ version_txt0 = version_txt
    /\ prev = NoPrev

\* a step of the run: op is what was done, arg its argument, res how it ended
\* ("ok"; "err": the call failed; "nonzero": the command ran and exited non-zero)
Event(op, arg, res) == [op |-> op, arg |-> arg, res |-> res]

\* fs::write that fails: the file is left untouched (it could not be opened),
\* truncated, written up to some point (here: half way) or written in full
PartialWrites(old, new) ==
    {old} \cup {SubSeq(new, 1, k) : k \in {0, Len(new) \div 2, Len(new)}}

(***************************************************************************)
(* main                                                                    *)
(***************************************************************************)

\* what main does with the command line c
Dispatch(c) ==
    IF c.command = "push" THEN "push_last_version"
    ELSE IF ~c.major /\ ~c.minor /\ ~c.patch THEN "done"
    ELSE IF ((c.major \/ c.minor) /\ c.patch) \/ (c.major /\ c.minor) THEN "done"
    ELSE "gen_last_version"

\* check_running_directory fails (in_repo false), or the command line is parsed
\* and dispatched; generate without exactly one flag prints a usage line and returns
Main ==
    /\ pc = "main"
    /\ \E in_repo \in BOOLEAN, c \in Commands :
        LET to == IF in_repo THEN Dispatch(c) ELSE "done" IN
        /\ to = "gen_last_version" => releases < MaxReleases
        /\ cmd' = IF in_repo THEN c ELSE NoCommand
        /\ pc' = to
        /\ releases' = IF to = "gen_last_version" THEN releases + 1 ELSE releases
    /\ UNCHANGED <<files, locals, trace, history>>

(***************************************************************************)
(* generate_changelog                                                      *)
(***************************************************************************)

GenGetLastVersion ==
    /\ pc = "gen_last_version"
    /\ \E ok \in BOOLEAN :
        IF ok
        THEN /\ last_version' = get_last_version(version_txt)
             /\ trace' = Append(trace, Event("read version.txt", <<>>, "ok"))
             /\ pc' = "gen_git_log"
        ELSE /\ last_version' = last_version
             /\ trace' = Append(trace, Event("read version.txt", <<>>, "err"))
             /\ pc' = "panicked"
    /\ UNCHANGED <<files, releases, cmd, git_log_raw, new_version, today, new_changelog,
                   changes, history>>

\* get_git_log_raw: panics when git cannot be run or exits non-zero
GenGetGitLogRaw ==
    /\ pc = "gen_git_log"
    /\ \E res \in {"ok", "nonzero", "err"}, stdout \in GitLogs :
        /\ trace' = Append(trace,
                Event("git log", last_version \o <<".", ".", ".", "HEAD">>, res))
        /\ git_log_raw' = IF res = "ok" THEN stdout ELSE git_log_raw
        /\ pc' = IF res = "ok" THEN "gen_new_version" ELSE "panicked"
    /\ UNCHANGED <<files, releases, cmd, last_version, new_version, today, new_changelog,
                   changes, history>>

GenGetNewVersion ==
    /\ pc = "gen_new_version"
    /\ \E overflow_checks \in BOOLEAN :
        LET r == get_new_version(last_version, cmd.major, cmd.minor, cmd.patch,
                                 overflow_checks)
        IN  /\ new_version' = IF r.panic THEN new_version ELSE r.value
            /\ pc' = IF r.panic THEN "panicked" ELSE "gen_read_changelog"
    /\ UNCHANGED <<files, releases, cmd, last_version, git_log_raw, today, new_changelog,
                   changes, trace, history>>

\* read_to_string, today_iso8601 and the rewrite loop
GenReadChangelog ==
    /\ pc = "gen_read_changelog"
    /\ \E ok \in BOOLEAN, d \in Dates :
        IF ok
        THEN /\ today' = d
             /\ new_changelog' =
                    NewChangelog(changelog, new_version, last_version, d, git_log_raw)
             /\ trace' = Append(trace, Event("read CHANGELOG.md", <<>>, "ok"))
             /\ pc' = "gen_write_changelog"
        ELSE /\ UNCHANGED <<today, new_changelog>>
             /\ trace' = Append(trace, Event("read CHANGELOG.md", <<>>, "err"))
             /\ pc' = "panicked"
    /\ UNCHANGED <<files, releases, cmd, last_version, git_log_raw, new_version, changes,
                   history>>

\* the changelog write with its result dropped, as push drops the exit statuses
GenWriteChangelog_Continue ==
    /\ pc = "gen_write_changelog"
    /\ \/ /\ changelog' = new_changelog
          /\ trace' = Append(trace, Event("write CHANGELOG.md", <<>>, "ok"))
       \/ /\ changelog' \in PartialWrites(changelog, new_changelog)
          /\ trace' = Append(trace, Event("write CHANGELOG.md", <<>>, "err"))
    /\ pc' = "gen_write_version"
    /\ UNCHANGED <<version_txt, releases, cmd, locals, history>>

GenWriteChangelog ==
    /\ pc = "gen_write_changelog"
    /\ \/ /\ changelog' = new_changelog
          /\ trace' = Append(trace, Event("write CHANGELOG.md", <<>>, "ok"))
          /\ pc' = "gen_write_version"
       \/ /\ changelog' \in PartialWrites(changelog, new_changelog)
          /\ trace' = Append(trace, Event("write CHANGELOG.md", <<>>, "err"))
          /\ pc' = "panicked"
    /\ UNCHANGED <<version_txt, releases, cmd, locals, history>>

\* the version write skipped when the rewrite left the changelog as it was
GenWriteVersion_SkipUnchanged ==
    /\ pc = "gen_write_version"
    /\ \/ /\ changelog # changelog0
          /\ version_txt' = new_version
          /\ trace' = Append(trace, Event("write version.txt", <<>>, "ok"))
          /\ pc' = "done"
       \/ /\ changelog = changelog0
          /\ UNCHANGED <<version_txt, trace>>
          /\ pc' = "done"
       \/ /\ version_txt' \in PartialWrites(version_txt, new_version)
          /\ trace' = Append(trace, Event("write version.txt", <<>>, "err"))
          /\ pc' = "panicked"
    /\ UNCHANGED <<changelog, releases, cmd, locals, history>>

GenWriteVersion ==
    /\ pc = "gen_write_version"
    /\ \/ /\ version_txt' = new_version
          /\ trace' = Append(trace, Event("write version.txt", <<>>, "ok"))
          /\ pc' = "done"
       \/ /\ version_txt' \in PartialWrites(version_txt, new_version)
          /\ trace' = Append(trace, Event("write version.txt", <<>>, "err"))
          /\ pc' = "panicked"
    /\ UNCHANGED <<changelog, releases, cmd, locals, history>>

(***************************************************************************)
(* push                                                                    *)
(***************************************************************************)

PushGetLastVersion ==
    /\ pc = "push_last_version"
    /\ \E ok \in BOOLEAN :
        IF ok
        THEN /\ last_version' = get_last_version(version_txt)
             /\ trace' = Append(trace, Event("read version.txt", <<>>, "ok"))
             /\ pc' = "push_get_changes"
        ELSE /\ last_version' = last_version
             /\ trace' = Append(trace, Event("read version.txt", <<>>, "err"))
             /\ pc' = "panicked"
    /\ UNCHANGED <<files, releases, cmd, git_log_raw, new_version, today, new_changelog,
                   changes, history>>

PushGetChanges ==
    /\ pc = "push_get_changes"
    /\ \E ok \in BOOLEAN :
        IF ok
        THEN /\ changes' = get_changes(changelog, last_version)
             /\ trace' = Append(trace, Event("read CHANGELOG.md", <<>>, "ok"))
             /\ pc' = "push_add_changelog"
        ELSE /\ changes' = changes
             /\ trace' = Append(trace, Event("read CHANGELOG.md", <<>>, "err"))
             /\ pc' = "panicked"
    /\ UNCHANGED <<files, releases, cmd, last_version, git_log_raw, new_version, today,
                   new_changelog, history>>

\* Command::new("git")...status().expect(..): expect panics only when git could not
\* be run ("err"); the exit status it returns is dropped, so the run goes on to the
\* next step whether git exited zero or not
RunGit(at, op, arg, next) ==
    /\ pc = at
    /\ \E res \in {"ok", "nonzero", "err"} :
        /\ trace' = Append(trace, Event(op, arg, res))
        /\ pc' = IF res = "err" THEN "panicked" ELSE next
    /\ UNCHANGED <<files, releases, cmd, locals, history>>

PushAddChangelog ==
    RunGit("push_add_changelog", "git add", <<"CHANGELOG.md">>, "push_add_version")

PushAddVersion ==
    RunGit("push_add_version", "git add", <<"version.txt">>, "push_commit")

\* format!("release: {version}\n\n{changes}")
PushCommit ==
    RunGit("push_commit", "git commit -m",
           <<"release: ">> \o last_version \o <<NL, NL>> \o changes, "push_tag")

PushTag == RunGit("push_tag", "git tag", last_version, "push_push")

PushPush == RunGit("push_push", "git push", <<>>, "push_push_tags")

PushPushTags == RunGit("push_push_tags", "git push", <<"--tags">>, "done")

(***************************************************************************)
(* The program is run again after a run that returned from main.  Runs    *)
(* that do not return from main are not followed: the files they leave     *)
(* are covered by the properties of the run itself.                        *)
(***************************************************************************)

\* generate_changelog has run and returned
Generated ==
    /\ cmd.command = "generate"
    /\ pc = "done"
    /\ trace # <<>>

\* The program is started again.  prev keeps what the last completed generate run
\* was given for as long as the files are as that run left them.
Rerun ==
    /\ pc = "done"
    /\ pc' = "main"
    /\ cmd' = NoCommand
    /\ last_version' = <<>>
    /\ git_log_raw' = <<>>
    /\ new_version' = <<>>
    /\ today' = ""
    /\ new_changelog' = <<>>
    /\ changes' = <<>>
    /\ trace' = <<>>
    /\ changelog0' = changelog
    /\ version_txt0' = version_txt
    /\ prev' = IF Generated
               THEN [generated |-> TRUE, document |-> changelog0,
                     git_log_raw |-> git_log_raw, last_version |-> last_version,
                     new_version |-> new_version]
               ELSE prev
    /\ UNCHANGED <<files, releases>>

Next ==
    \/ Main
    \/ GenGetLastVersion
    \/ GenGetGitLogRaw
    \/ GenGetNewVersion
    \/ GenReadChangelog
    \/ GenWriteChangelog
    \/ GenWriteVersion
    \/ PushGetLastVersion
    \/ PushGetChanges
    \/ PushAddChangelog
    \/ PushAddVersion
    \/ PushCommit
    \/ PushTag
    \/ PushPush
    \/ PushPushTags
    \/ Rerun

Spec == Init /\ [][Next]_vars

(***************************************************************************)
(* Vocabulary of the properties.                                           *)
(***************************************************************************)

Happened(op, res) == \E i \in 1..Len(trace) : trace[i].op = op /\ trace[i].res = res

Attempted(op) == \E i \in 1..Len(trace) : trace[i].op = op

InGenerate == cmd.command = "generate"
InPush == cmd.command = "push"

\* the changelog write of this generate run has just succeeded
ChangelogWritten == InGenerate /\ pc = "gen_write_version"

\* indexes of the lines of ls that start with the Unreleased prefix
Markers(ls) == {i \in 1..Len(ls) : StartsWith(ls[i], UnreleasedPrefix)}

HasHeader(ls, v) == \E i \in 1..Len(ls) : StartsWith(ls[i], StartMarker(v))
HasLink(ls, v) == \E i \in 1..Len(ls) : StartsWith(ls[i], EndMarker(v))

\* the release block of the current generate run
Block == ReleaseBlock(new_version, last_version, today, parse_git_log(git_log_raw))

\* a < b in (major, minor, patch) order
VersionLess(a, b) ==
    \/ NumLess(a.major, b.major)
    \/ a.major = b.major /\ NumLess(a.minor, b.minor)
    \/ a.major = b.major /\ a.minor = b.minor /\ NumLess(a.patch, b.patch)

\* get_new_version has just returned
NewVersionReturned == InGenerate /\ pc = "gen_read_changelog"

OldV == VersionParse(last_version)
NewV == VersionParse(new_version)

\* the component the flag of this run targets
Target == IF cmd.major THEN "major" ELSE IF cmd.minor THEN "minor" ELSE "patch"

\* only the targeted component differs, and it is one more
BumpedExactly ==
    /\ NewV.ok
    /\ NewV[Target] = Succ(OldV[Target])
    /\ \A f \in {"major", "minor", "patch", "rest"} \ {Target} : NewV[f] = OldV[f]
    /\ VersionLess(OldV, NewV)

\* C4 as stated: for every valid version and bump kind, get_new_version returns the
\* version with exactly the targeted component incremented by one, the others
\* unchanged, and strictly greater in (major, minor, patch) order.
C4_EveryVersion == NewVersionReturned => BumpedExactly

\* C4, amended: the same for every valid version whose targeted component is below
\* u64::MAX (at u64::MAX the increment overflows: the call panics or wraps to 0).
C4_BelowMax ==
    NewVersionReturned /\ OldV[Target] # U64Max => BumpedExactly

\* a major bump of 1.2.3 has returned 2.2.3: minor and patch are not reset
C4_Witness ==
    /\ NewVersionReturned
    /\ cmd.major
    /\ last_version = V123
    /\ new_version = <<"2", ".", "2", ".", "3">>

V130 == <<"1", ".", "3", ".", "0">>

FixBug == <<"-", " ", "F", "i", "x", " ", "b", "u", "g">>
AddFeature == <<"-", " ", "A", "d", "d", " ", "f", "e", "a", "t", "u", "r", "e">>

\* every line of ls followed by a newline
Terminated(ls) == IF ls = <<>> THEN <<>> ELSE JoinNL(ls) \o <<NL>>

Lines0 == SplitNL(changelog0)
LinesNow == SplitNL(changelog)

\* C5 as stated: from version file 1.2.3, --minor, the document with the Unreleased
\* marker for 1.2.3...HEAD and the log lines `abc123 Fix bug`, `def456 Add feature`,
\* the run produces 1.3.0, writes 1.3.0 to the version file and inserts the header
\* of 1.3.0, the two entries in order and the link .../compare/1.2.3...1.3.0.
C5_Example ==
    ( /\ Generated
      /\ cmd.minor
      /\ version_txt0 = V123 \o <<NL>>
      /\ changelog0 = DocRelease
      /\ git_log_raw = LogTwoCommits )
    => /\ new_version = V130
       /\ version_txt = V130
       /\ \E i \in 1..Len(LinesNow) :
            /\ LinesNow[i] = HeaderLine(V130, today)
            /\ \E j \in (i + 1)..(Len(LinesNow) - 2) :
                /\ LinesNow[j] = FixBug
                /\ LinesNow[j + 1] = AddFeature
                /\ \E k \in (j + 2)..Len(LinesNow) : LinesNow[k] = LinkLine(V130, V123)

\* a log line of the form <hex-hash><whitespace><message>
WellFormed(line) ==
    LET hash == TakeWhile(line, Digits \cup HexLetters)
        after == Drop(line, Len(hash))
    IN  /\ hash # <<>>
        /\ after # <<>>
        /\ IsWhitespace(after[1])
        /\ Trim(after) # <<>>

RECURSIVE WellFormedMessages(_)
WellFormedMessages(ls) ==
    IF ls = <<>> THEN <<>>
    ELSE (IF WellFormed(Head(ls))
          THEN <<[msg |-> Trim(Drop(Head(ls),
                                    Len(TakeWhile(Head(ls), Digits \cup HexLetters))))]>>
          ELSE <<>>) \o WellFormedMessages(Tail(ls))

\* C6 as stated: parse_git_log yields an entry for a line only if the line is
\* <hex-hash><whitespace><message>; every other line yields nothing, so the entries
\* are exactly those of the well-formed lines, in order.
C6_OnlyWellFormed ==
    InGenerate /\ pc = "gen_new_version"
    => parse_git_log(git_log_raw) = WellFormedMessages(StrLines(git_log_raw))

GitOps == {"git add", "git commit -m", "git tag", "git push"}

IsGit(e) == e.op \in GitOps

GitSteps == SelectSeq(trace, IsGit)

PushOrder == <<"git add", "git add", "git commit -m", "git tag", "git push", "git push">>

\* C7 as stated: push runs add, add, commit, tag, push, push --tags in this order,
\* a step is started only if every earlier step succeeded, and a step that exits
\* non-zero aborts the run.
C7_StopsAtFailure ==
    InPush =>
      /\ Len(GitSteps) <= Len(PushOrder)
      /\ \A i \in 1..Len(GitSteps) : GitSteps[i].op = PushOrder[i]
      /\ \A i \in 1..Len(GitSteps) : \A j \in 1..(i - 1) : GitSteps[j].res = "ok"
      /\ (\E i \in 1..Len(GitSteps) : GitSteps[i].res # "ok") => pc = "panicked"

\* the lines strictly between the first header of v and the first closing link of
\* v after it (or the end), each followed by a newline; empty without a header
SectionBetween(ls, v) ==
    LET hs == {i \in 1..Len(ls) : StartsWith(ls[i], StartMarker(v))}
        h == Least(hs)
        es == {i \in (h + 1)..Len(ls) : StartsWith(ls[i], EndMarker(v))}
        e == IF es = {} THEN Len(ls) + 1 ELSE Least(es)
    IN  IF hs = {} THEN <<>> ELSE Terminated(SubSeq(ls, h + 1, e - 1))

\* C9 as stated: get_changes returns the lines strictly between the first header of
\* the version and the first closing link after that header, each with a newline; a
\* closing link before the header does not end the scan.
C9_BetweenHeaderAndLink ==
    InPush /\ pc = "push_add_changelog"
    => changes = SectionBetween(StrLines(changelog), last_version)

\* the document with only the line at index i replaced by the release block
FirstReplaced(old, i) == SubSeq(old, 1, i - 1) \o Block \o SubSeq(old, i + 1, Len(old))

\* C2 as stated: only the first line with the Unreleased prefix is replaced by the
\* release block, every later line is emitted unchanged, and the output has no more
\* Unreleased marker lines than the input.
C2_OnlyFirstMarker ==
    ChangelogWritten =>
      /\ LinesNow = IF Markers(Lines0) = {} THEN Lines0
                    ELSE FirstReplaced(Lines0, Least(Markers(Lines0)))
      /\ Cardinality(Markers(LinesNow)) <= Cardinality(Markers(Lines0))

\* C3: with exactly one Unreleased marker line, at index i, the written document
\* starts with the original lines before i and ends with the original lines after i.
C3_Frame ==
    ChangelogWritten /\ Cardinality(Markers(Lines0)) = 1 =>
      LET i == Least(Markers(Lines0))
          after == Len(Lines0) - i
      IN  /\ Len(LinesNow) >= Len(Lines0) - 1
          /\ SubSeq(LinesNow, 1, i - 1) = SubSeq(Lines0, 1, i - 1)
          /\ SubSeq(LinesNow, Len(LinesNow) - after + 1, Len(LinesNow))
               = SubSeq(Lines0, i + 1, Len(Lines0))

\* the changelog with its marker on the third of ten lines has been rewritten
C3_Witness ==
    /\ ChangelogWritten
    /\ changelog0 = DocRelease
    /\ Len(LinesNow) > Len(Lines0)

\* C8: in a generate run the version file is read before git log is run and is
\* written only after the changelog write succeeded; a failure aborts the run, the
\* version file keeps its old contents unless its own write was reached, and both
\* files are unchanged when the run failed before the changelog write.
C8_Ordering ==
    InGenerate =>
      /\ \A i \in 1..Len(trace) :
            trace[i].op = "git log" =>
              \E j \in 1..(i - 1) : trace[j] = Event("read version.txt", <<>>, "ok")
      /\ \A i \in 1..Len(trace) :
            trace[i].op = "write version.txt" =>
              \E j \in 1..(i - 1) : trace[j] = Event("write CHANGELOG.md", <<>>, "ok")
      /\ (\E i \in 1..Len(trace) : trace[i].res # "ok") => pc = "panicked"
      /\ ~Attempted("write version.txt") => version_txt = version_txt0
      /\ ~Attempted("write CHANGELOG.md") => changelog = changelog0

\* the changelog write failed half way: the run is aborted, the changelog is
\* damaged and the version file still holds the old version
C8_Witness ==
    /\ InGenerate
    /\ pc = "panicked"
    /\ Happened("write CHANGELOG.md", "err")
    /\ changelog # changelog0
    /\ version_txt = version_txt0

\* a panic of generate_changelog comes from a failed call or from get_new_version
PanicHasCause ==
    pc = "panicked" =>
      \/ trace # <<>> /\ trace[Len(trace)].res # "ok"
      \/ new_version = <<>>

\* C10 as stated: without a line with the Unreleased prefix the document is written
\* back unchanged, the run does not abort, the version file gets the new version, and
\* that version has no header and no closing link in the changelog.
C10_NoSectionForVersion ==
    InGenerate =>
      /\ ChangelogWritten /\ Markers(Lines0) = {} => changelog = changelog0
      /\ PanicHasCause \/ Markers(Lines0) # {}
      /\ Generated /\ Markers(Lines0) = {} =>
            /\ version_txt = new_version
            /\ ~HasHeader(LinesNow, new_version)
            /\ ~HasLink(LinesNow, new_version)

\* C10, amended: ... the version file gets the new version, and the changelog has a
\* header or a closing link for that version only if the input document had one.
C10_NothingInserted ==
    InGenerate =>
      /\ ChangelogWritten /\ Markers(Lines0) = {} => changelog = changelog0
      /\ PanicHasCause \/ Markers(Lines0) # {}
      /\ Generated /\ Markers(Lines0) = {} =>
            /\ version_txt = new_version
            /\ HasHeader(LinesNow, new_version) => HasHeader(Lines0, new_version)
            /\ HasLink(LinesNow, new_version) => HasLink(Lines0, new_version)

\* a run on the document without marker has ended: same document, new version in
\* the version file, no section for it
C10_Witness ==
    /\ Generated
    /\ changelog0 = DocNoMarker
    /\ changelog = DocNoMarker
    /\ version_txt = new_version
    /\ new_version # last_version
    /\ ~HasHeader(LinesNow, new_version)
    /\ ~HasLink(LinesNow, new_version)

\* this run is a push after a completed generate of a document with an Unreleased
\* marker, and get_changes has just returned
RoundTrip ==
    /\ InPush
    /\ pc = "push_add_changelog"
    /\ prev.generated
    /\ Markers(SplitNL(prev.document)) # {}

\* the entry lines the generate run was given, each followed by a newline
SuppliedEntries == Terminated(EntryLines(parse_git_log(prev.git_log_raw)))

\* no line above the first Unreleased marker of the document carries the header or
\* the closing-link prefix of the inserted version
NoSectionAbove ==
    LET ls == SplitNL(prev.document) IN
    \A i \in 1..(Least(Markers(ls)) - 1) :
        /\ ~StartsWith(ls[i], StartMarker(prev.new_version))
        /\ ~StartsWith(ls[i], EndMarker(prev.new_version))

\* C1 as stated: the insertion of generate_changelog followed by get_changes for the
\* inserted version returns exactly the supplied entry lines and nothing else.
C1_ExactlyEntries == RoundTrip => changes = SuppliedEntries

\* C1, amended: it returns a blank line, the supplied entry lines and a blank line,
\* when no line above the first Unreleased marker starts with the header or the
\* closing-link prefix of the inserted version.
C1_EntriesBetweenBlanks ==
    RoundTrip /\ NoSectionAbove => changes = <<NL>> \o SuppliedEntries \o <<NL>>

\* the section of two commits read back
C1_Witness ==
    /\ RoundTrip
    /\ NoSectionAbove
    /\ last_version = prev.new_version
    /\ changes = <<NL>> \o FixBug \o <<NL>> \o AddFeature \o <<NL, NL>>

====
